---- MODULE Spec2Model ----
(***************************************************************************)
(* Request execution engine of the secret-store client: get_secret with    *)
(* its moka-backed cache, the mutating operations with their cache         *)
(* invalidation, and execute_with_retry (backoff retry, one-shot token     *)
(* refresh), as a state machine over concurrent logical calls.             *)
(*                                                                         *)
(* Time is a discrete clock.  One tick is 60 seconds, the backoff's        *)
(* max_elapsed_time; the configured request timeout (30 s by default) and  *)
(* the backoff intervals (at most 13 s) are shorter than a tick.           *)
(***************************************************************************)
EXTENDS Integers, Sequences, FiniteSets, TLC

\* ------------------------------------------------------------------ bounds

MaxCalls == 2
MaxExecCalls == 2
MaxConcCalls == 4
MaxAuthCalls == 2
MaxMutCalls == 2
MaxReadCalls == 2
MaxTripCalls == 3
MaxLiveCalls == 2
MaxTime == 2
MaxRetries == 2
MaxEntries == 1
DefaultTtl == 2
ExpiresAt == 1

\* backoff.max_elapsed_time when max_retries > 0, in ticks (60 s)
MaxElapsedTime == 1
\* config.timeout, the request timeout handed to reqwest, in ticks rounded up
\* (DEFAULT_TIMEOUT_MS is 30 s, half a tick)
Timeout == 1

Procs == {1, 2}
Namespaces == {"n1", "n2"}
ItemKeys == {"a", "b"}
Keys == {<<"n1", "a">>, <<"n1", "b">>}
Values == {"v1", "v2"}

\* ------------------------------------------------------------------ data

\* format!("{}/{}", namespace, key)
cache_key(namespace, key) == <<namespace, key>>

NoEntry == [present |-> FALSE]
Absent == "absent"

\* The version the server stores with a value.
VersionOf(v) == IF v = "v1" THEN 1 ELSE 2

\* Error
HttpError(status, category) == [type |-> "Http", status |-> status, category |-> category]
OtherError(type) == [type |-> type, status |-> 0, category |-> ""]

\* Error::is_retryable
is_retryable(error) ==
    CASE error.type = "Http" -> error.status \in {429, 500, 502, 503, 504}
      [] error.type = "Network" -> TRUE
      [] error.type = "Timeout" -> TRUE
      [] OTHER -> FALSE

\* impl From<reqwest::Error> for Error
from_reqwest(cause) ==
    CASE cause = "timeout" -> OtherError("Timeout")
      [] cause = "connect" -> OtherError("Network")
      [] cause = "decode" -> OtherError("Deserialize")
      [] OTHER -> OtherError("Other")

\* Responses of the transport.  body is the status field of a parsable JSON
\* error body when it differs from the HTTP status, else 0 (the body is no
\* ErrorResponse, or it repeats the HTTP status).
ErrStatuses == {401, 404, 408, 429, 501, 503}
BodiesOf(status) == {0, IF status = 404 THEN 503 ELSE 404}
HttpResponse(status, body) ==
    [kind |-> "http", status |-> status, body |-> body, cause |-> "", category |-> "server"]
TransportError(cause) ==
    [kind |-> "error", status |-> 0, body |-> 0, cause |-> cause, category |-> ""]
\* A 404 whose JSON error body reads {"status": 401, "error": "auth_refresh_needed"}
RefreshNeededBody == [HttpResponse(404, 401) EXCEPT !.category = "auth_refresh_needed"]
Responses ==
    {HttpResponse(200, 0), HttpResponse(304, 0)}
    \cup UNION {{HttpResponse(s, b) : b \in BodiesOf(s)} : s \in ErrStatuses}
    \cup {TransportError(c) : c \in {"timeout", "connect", "decode"}}

\* Error::Other("Server returned 304 but no cached entry found")
ConsistencyError == [type |-> "Other", status |-> 0, category |-> "304 no cached entry"]

\* Client::parse_error_response
parse_error_response(r) ==
    IF r.body # 0 THEN HttpError(r.body, r.category) ELSE HttpError(r.status, "server")

\* StatusCode::is_server_error, is_success
is_server_error(status) == status >= 500 /\ status <= 599
is_success(status) == status >= 200 /\ status <= 299

\* ------------------------------------------------------------------ state

VARIABLES
    config,     \* ClientConfig: cache_config.enabled, retries, auth kind
    now,        \* the clock
    cache,      \* the moka cache: cache key -> CachedSecret or NoEntry
    stats,      \* CacheStats
    server,     \* the remote store: key -> value or Absent
    calls,      \* logical calls started so far; also the source of request ids
    pc,         \* per caller: where its logical call stands
    call,       \* per caller: the operation and its arguments
    ex,         \* per caller: the locals of execute_with_retry and its history
    resp,       \* per caller: the response execute_with_retry returned
    res,        \* per caller: the result of the last finished call
    last,       \* the caller whose call returned in the latest step, else 0
    mut,        \* per key: history of the latest mutation that found an entry
    tally       \* the cache reads and inserts performed until the first clear_cache

vars == <<config, now, cache, stats, server, calls, pc, call, ex, resp, res, last, mut, tally>>

ZeroStats == [hits |-> 0, misses |-> 0, insertions |-> 0, evictions |-> 0, expirations |-> 0]

NoCall == [op |-> "none", keys |-> {}, use_cache |-> FALSE, value |-> "v1", transactional |-> FALSE]
NoEx == [token_refresh_count |-> 0, retry_count |-> 0, started |-> 0, sent_at |-> 0,
         request_id |-> 0, sends |-> 0, ids |-> {}, refreshes |-> 0, fails |-> 0,
         unauthorized |-> 0, from_cache |-> FALSE, after |-> {}]
NoSecret == [value |-> "", version |-> 0, etag |-> FALSE, expires_at |-> {}]
NoResp == [kind |-> "", status |-> 0, body |-> 0, cause |-> "", category |-> "",
           secret |-> NoSecret, failed |-> {}]
NoRes == [ok |-> FALSE, set |-> FALSE, secret |-> NoSecret]

Ok(secret) == [ok |-> TRUE, set |-> TRUE, secret |-> secret]
OkUnit == [ok |-> TRUE, set |-> TRUE, secret |-> NoSecret]
\* Ok(BatchOperateResult): results.succeeded and results.failed, by key
OkBatch(succeeded, failed) ==
    [ok |-> TRUE, set |-> TRUE, secret |-> NoSecret, succeeded |-> succeeded, failed |-> failed]
Err(error) == [ok |-> FALSE, set |-> TRUE, secret |-> NoSecret, error |-> error]

NoMut == [phase |-> "none", by |-> 0]

NoTally == [found |-> 0, none |-> 0, inserts |-> 0, cleared |-> FALSE]

\* ClientBuilder::build: a client is built once, its configuration never changes
Configs == [cache_enabled : BOOLEAN, retries : 0..MaxRetries, supports_refresh : BOOLEAN]

Init ==
    /\ config \in Configs
    /\ now = 0
    /\ cache = [k \in Keys |-> NoEntry]
    /\ stats = ZeroStats
    /\ server = [k \in Keys |-> "v1"]
    /\ calls = 0
    /\ pc = [p \in Procs |-> "idle"]
    /\ call = [p \in Procs |-> NoCall]
    /\ ex = [p \in Procs |-> NoEx]
    /\ resp = [p \in Procs |-> NoResp]
    /\ res = [p \in Procs |-> NoRes]
    /\ last = 0
    /\ mut = [k \in Keys |-> NoMut]
    /\ tally = NoTally

\* ------------------------------------------------------------------ cache

\* CachedSecret::is_expired at time t
is_expired(e, t) ==
    \/ t >= e.cache_expires_at
    \/ \E x \in e.expires_at : t >= x

\* moka Cache::get under time_to_live(default_ttl): an entry is visible until
\* its insertion time plus the time to live.
moka_get(c, k, t) ==
    IF c[k].present /\ t < c[k].inserted_at + DefaultTtl THEN c[k] ELSE NoEntry

\* moka Cache::invalidate
moka_invalidate(c, k) == [c EXCEPT ![k] = NoEntry]

\* moka Cache::insert under max_capacity(max_entries): the caches the insert
\* can leave.  Below capacity the entry is stored.  Above it the size-based
\* policy may drop any one entry, the new one included, at once or later
\* (run_pending_tasks).  Entries past the time to live occupy the cache until
\* the housekeeping drops them.
moka_insert(c, k, e) ==
    LET stored == [c EXCEPT ![k] = e]
        held == {x \in Keys : stored[x].present}
    IN  IF Cardinality(held) <= MaxEntries
        THEN {stored}
        ELSE {stored} \cup {moka_invalidate(stored, v) : v \in held}

\* CachedSecret::into_secret
into_secret(e) ==
    [value |-> e.value, version |-> e.version, etag |-> e.etag, expires_at |-> e.expires_at]

\* get_from_cache leaving an expired entry in the cache
get_from_cache_keeping(k) ==
    IF ~config.cache_enabled
    THEN [found |-> FALSE, cache |-> cache, stats |-> stats]
    ELSE LET cached == moka_get(cache, k, now)
         IN  IF cached.present
             THEN IF is_expired(cached, now)
                  THEN [found |-> FALSE,
                        cache |-> cache,
                        stats |-> [stats EXCEPT !.expirations = @ + 1, !.misses = @ + 1]]
                  ELSE [found |-> TRUE, secret |-> into_secret(cached),
                        cache |-> cache,
                        stats |-> [stats EXCEPT !.hits = @ + 1]]
             ELSE [found |-> FALSE, cache |-> cache,
                   stats |-> [stats EXCEPT !.misses = @ + 1]]

\* get_from_cache without record_miss for a key the cache does not hold
get_from_cache_quiet(k) ==
    IF ~config.cache_enabled
    THEN [found |-> FALSE, cache |-> cache, stats |-> stats]
    ELSE LET cached == moka_get(cache, k, now)
         IN  IF cached.present
             THEN IF is_expired(cached, now)
                  THEN [found |-> FALSE,
                        cache |-> moka_invalidate(cache, k),
                        stats |-> [stats EXCEPT !.expirations = @ + 1, !.misses = @ + 1]]
                  ELSE [found |-> TRUE, secret |-> into_secret(cached),
                        cache |-> cache,
                        stats |-> [stats EXCEPT !.hits = @ + 1]]
             ELSE [found |-> FALSE, cache |-> cache, stats |-> stats]

\* Client::get_from_cache: the secret found (if any) and the cache and the
\* statistics the read leaves.
get_from_cache(k) ==
    IF ~config.cache_enabled
    THEN [found |-> FALSE, cache |-> cache, stats |-> stats]
    ELSE LET cached == moka_get(cache, k, now)
         IN  IF cached.present
             THEN IF is_expired(cached, now)
                  THEN [found |-> FALSE,
                        cache |-> moka_invalidate(cache, k),
                        stats |-> [stats EXCEPT !.expirations = @ + 1, !.misses = @ + 1]]
                  ELSE [found |-> TRUE, secret |-> into_secret(cached),
                        cache |-> cache,
                        stats |-> [stats EXCEPT !.hits = @ + 1]]
             ELSE [found |-> FALSE, cache |-> cache,
                   stats |-> [stats EXCEPT !.misses = @ + 1]]

\* cache_secret storing an entry whose cache_expires_at is the time of the fetch
cached_secret_expired(secret, t) ==
    [present |-> TRUE, value |-> secret.value, version |-> secret.version,
     etag |-> secret.etag, expires_at |-> secret.expires_at,
     cache_expires_at |-> t, inserted_at |-> t]

\* Client::cache_secret: the entry stored for a secret fetched at time t
cached_secret(secret, t) ==
    [present |-> TRUE, value |-> secret.value, version |-> secret.version,
     etag |-> secret.etag, expires_at |-> secret.expires_at,
     cache_expires_at |-> t + (IF secret.etag THEN DefaultTtl * 2 ELSE DefaultTtl),
     inserted_at |-> t]

\* ------------------------------------------------------------------ helpers

IsMutation(op) == op \in {"put_secret", "delete_secret", "rollback", "batch_operate", "delete_namespace"}

CanStart(p) == pc[p] \in {"idle", "done"}

\* Client::build_request: the X-Request-ID generated for the logical call
\* (generate_request_id is a fresh uuid, here the next unused number).
build_request(n) == n + 1

\* The other callers whose put_secret had returned with success when p starts
\* a call (history kept for the claims about a put followed by a get).
PutBefore(p) ==
    {q \in Procs \ {p} : pc[q] = "done" /\ call[q].op = "put_secret" /\ res[q].ok}

\* The call record and the fresh executor state of a newly started call.
Begin(p, c) ==
    /\ call' = [call EXCEPT ![p] = c]
    /\ ex' = [ex EXCEPT ![p] = [NoEx EXCEPT !.request_id = build_request(calls),
                                           !.after = PutBefore(p)]]
    /\ calls' = calls + 1
    /\ resp' = [resp EXCEPT ![p] = NoResp]

\* The call of p returns result r.
Return(p, r) ==
    /\ pc' = [pc EXCEPT ![p] = "done"]
    /\ res' = [res EXCEPT ![p] = r]
    /\ last' = p

\* History of mutations, kept per key for the invalidation claims: a mutation
\* that names k while k has a live entry is "pending" until it returns, then "ran"
\* until the next default get_secret of k starts.
MutStarted(p, affected) ==
    [k \in Keys |->
        IF k \in affected /\ moka_get(cache, k, now).present /\ ~is_expired(cache[k], now)
        THEN [phase |-> "pending", by |-> p]
        ELSE mut[k]]
MutReturned(p) ==
    [k \in Keys |->
        IF mut[k].phase = "pending" /\ mut[k].by = p THEN [mut[k] EXCEPT !.phase = "ran"] ELSE mut[k]]
MutRead(k) ==
    [mut EXCEPT ![k] = IF @.phase = "ran" THEN NoMut ELSE @]

\* The tally after a call of get_from_cache that returned g: a read of the
\* cache is counted when the client has a cache, until the first clear_cache.
CacheRead(g) ==
    IF ~config.cache_enabled \/ tally.cleared THEN tally
    ELSE IF g.found THEN [tally EXCEPT !.found = @ + 1]
    ELSE [tally EXCEPT !.none = @ + 1]

\* The tally after cache.insert in cache_secret.
CacheInsert ==
    IF tally.cleared THEN tally ELSE [tally EXCEPT !.inserts = @ + 1]

\* ------------------------------------------------------------------ operations

\* Client::get_secret up to the dispatch: the cache check, then build_request
get_secret(p, namespace, key, use_cache) ==
    LET k == cache_key(namespace, key)
        g == get_from_cache(k)
        c == [NoCall EXCEPT !.op = "get_secret", !.keys = {k}, !.use_cache = use_cache]
    IN  /\ CanStart(p)
        /\ Begin(p, c)
        /\ mut' = IF use_cache THEN MutRead(k) ELSE mut
        /\ tally' = IF use_cache THEN CacheRead(g) ELSE tally
        /\ cache' = IF use_cache THEN g.cache ELSE cache
        /\ stats' = IF use_cache THEN g.stats ELSE stats
        /\ IF use_cache /\ g.found
           THEN Return(p, Ok(g.secret))
           ELSE /\ pc' = [pc EXCEPT ![p] = "loop"]
                /\ res' = [res EXCEPT ![p] = NoRes]
                /\ last' = 0
        /\ UNCHANGED <<config, now, server>>

\* A mutating operation that builds its request without touching the cache
Mutate_keep(p, op, affected, removed, value, transactional) ==
    /\ CanStart(p)
    /\ Begin(p, [op |-> op, keys |-> affected, use_cache |-> FALSE, value |-> value,
                 transactional |-> transactional])
    /\ cache' = cache
    /\ mut' = IF config.cache_enabled THEN MutStarted(p, affected) ELSE mut
    /\ pc' = [pc EXCEPT ![p] = "loop"]
    /\ res' = [res EXCEPT ![p] = NoRes]
    /\ last' = 0
    /\ UNCHANGED <<config, now, stats, server, tally>>

\* The part the mutating operations share: invalidate the cache entries in
\* removed, then build the request.
Mutate(p, op, affected, removed, value, transactional) ==
    /\ CanStart(p)
    /\ Begin(p, [op |-> op, keys |-> affected, use_cache |-> FALSE, value |-> value,
                 transactional |-> transactional])
    /\ cache' = IF config.cache_enabled
                THEN [k \in Keys |-> IF k \in removed THEN NoEntry ELSE cache[k]]
                ELSE cache
    /\ mut' = IF config.cache_enabled THEN MutStarted(p, affected) ELSE mut
    /\ pc' = [pc EXCEPT ![p] = "loop"]
    /\ res' = [res EXCEPT ![p] = NoRes]
    /\ last' = 0
    /\ UNCHANGED <<config, now, stats, server, tally>>

\* Client::put_secret
put_secret(p, namespace, key, value) ==
    Mutate(p, "put_secret", {cache_key(namespace, key)}, {cache_key(namespace, key)}, value, FALSE)

\* Client::delete_secret
delete_secret(p, namespace, key) ==
    Mutate(p, "delete_secret", {cache_key(namespace, key)}, {cache_key(namespace, key)}, "v1", FALSE)

\* Client::rollback to the version of value
rollback(p, namespace, key, value) ==
    Mutate(p, "rollback", {cache_key(namespace, key)}, {cache_key(namespace, key)}, value, FALSE)

\* Client::batch_operate: operations put value under each key of op_keys
batch_operate(p, namespace, op_keys, value, transactional) ==
    LET named == {cache_key(namespace, key) : key \in op_keys}
    IN  Mutate(p, "batch_operate", named, named, value, transactional)

\* Client::delete_namespace and delete_namespace_idempotent: invalidate_all
delete_namespace(p, namespace) ==
    Mutate(p, "delete_namespace", {k \in Keys : k[1] = namespace}, Keys, "v1", FALSE)

\* Client::clear_cache, first statement: cache.invalidate_all()
clear_cache(p) ==
    /\ CanStart(p)
    /\ Begin(p, [NoCall EXCEPT !.op = "clear_cache"])
    /\ IF config.cache_enabled
       THEN /\ cache' = [k \in Keys |-> NoEntry]
            /\ pc' = [pc EXCEPT ![p] = "reset"]
            /\ res' = [res EXCEPT ![p] = NoRes]
            /\ last' = 0
       ELSE /\ cache' = cache
            /\ Return(p, OkUnit)
    /\ tally' = IF config.cache_enabled THEN [tally EXCEPT !.cleared = TRUE] ELSE tally
    /\ UNCHANGED <<config, now, stats, server, mut>>

\* Client::clear_cache, second statement: self.stats.reset()
stats_reset(p) ==
    /\ pc[p] = "reset"
    /\ stats' = ZeroStats
    /\ Return(p, OkUnit)
    /\ UNCHANGED <<config, now, cache, server, calls, call, ex, resp, mut, tally>>

\* ---- the reads that are not cache-eligible

ReadOnlyOps ==
    {"list_secrets", "batch_get", "export_env", "list_versions", "get_version", "audit"}

HealthChecks == {"livez", "readyz", "metrics"}

\* The keys stored under a namespace
KeysOf(namespace) == {k \in Keys : k[1] = namespace}

\* A read that consults the cache for the first key it names before the
\* request is built
Query_cached(p, op, keys) ==
    LET g == get_from_cache(CHOOSE k \in Keys : keys # {} => k \in keys)
    IN  /\ CanStart(p)
        /\ Begin(p, [NoCall EXCEPT !.op = op, !.keys = keys])
        /\ cache' = g.cache
        /\ stats' = g.stats
        /\ pc' = [pc EXCEPT ![p] = "loop"]
        /\ res' = [res EXCEPT ![p] = NoRes]
        /\ last' = 0
        /\ UNCHANGED <<config, now, server, mut, tally>>

\* A read other than get_secret up to the dispatch: the url is composed,
\* build_request makes the request, execute_with_retry takes it.  Neither
\* self.cache nor self.stats is named.
Query(p, op, keys) ==
    /\ CanStart(p)
    /\ Begin(p, [NoCall EXCEPT !.op = op, !.keys = keys])
    /\ pc' = [pc EXCEPT ![p] = "loop"]
    /\ res' = [res EXCEPT ![p] = NoRes]
    /\ last' = 0
    /\ UNCHANGED <<config, now, cache, stats, server, mut, tally>>

list_secrets(p, namespace) == Query(p, "list_secrets", KeysOf(namespace))

batch_get(p, namespace, keys) ==
    Query(p, "batch_get", {cache_key(namespace, key) : key \in keys})

\* opts.use_cache is accepted and ignored
export_env(p, namespace, use_cache) == Query(p, "export_env", KeysOf(namespace))

list_versions(p, namespace, key) == Query(p, "list_versions", {cache_key(namespace, key)})

get_version(p, namespace, key) == Query(p, "get_version", {cache_key(namespace, key)})

audit(p) == Query(p, "audit", {})

\* Client::livez, readyz, metrics up to the dispatch: build_request, then
\* execute_without_retry
health_check(p, op) ==
    /\ op \in HealthChecks
    /\ CanStart(p)
    /\ Begin(p, [NoCall EXCEPT !.op = op])
    /\ pc' = [pc EXCEPT ![p] = "probe"]
    /\ res' = [res EXCEPT ![p] = NoRes]
    /\ last' = 0
    /\ UNCHANGED <<config, now, cache, stats, server, mut, tally>>

\* ------------------------------------------------------------------ executor

\* The transport is invoked: http.execute(req) with the request built for
\* the call, whose X-Request-ID header every clone of the request carries.
Send(p, e) ==
    [e EXCEPT !.sends = @ + 1, !.ids = @ \cup {e.request_id}, !.sent_at = now]

\* The top of the loop sending the request although get_header failed
loop_top_sending(p, header_ok) ==
    /\ pc[p] = "loop"
    /\ header_ok \/ config.supports_refresh
    /\ IF header_ok
       THEN /\ ex' = [ex EXCEPT ![p] = Send(p, [@ EXCEPT !.retry_count = 0, !.started = now])]
            /\ pc' = [pc EXCEPT ![p] = "inflight"]
            /\ UNCHANGED res
            /\ last' = 0
            /\ mut' = mut
       ELSE /\ ex' = [ex EXCEPT ![p] = Send(p, @)]
            /\ Return(p, Err(OtherError("Config")))
            /\ mut' = MutReturned(p)
    /\ UNCHANGED <<config, now, cache, stats, server, calls, call, resp, tally>>

\* Client::execute_with_retry, top of the loop: the auth header is fetched,
\* the backoff and the retry counter are created, the first attempt is sent.
\* header_ok is whether Auth::get_header succeeds (a static credential
\* always does).
loop_top(p, header_ok) ==
    /\ pc[p] = "loop"
    /\ header_ok \/ config.supports_refresh
    /\ IF header_ok
       THEN /\ ex' = [ex EXCEPT ![p] = Send(p, [@ EXCEPT !.retry_count = 0, !.started = now])]
            /\ pc' = [pc EXCEPT ![p] = "inflight"]
            /\ UNCHANGED res
            /\ last' = 0
            /\ mut' = mut
       ELSE /\ ex' = ex
            /\ Return(p, Err(OtherError("Config")))
            /\ mut' = MutReturned(p)
    /\ UNCHANGED <<config, now, cache, stats, server, calls, call, resp, tally>>

\* retry_notify: the backoff sleep is over, the closure runs again
retry_send(p) ==
    /\ pc[p] = "retry"
    /\ ex' = [ex EXCEPT ![p] = Send(p, @)]
    /\ pc' = [pc EXCEPT ![p] = "inflight"]
    /\ last' = 0
    /\ UNCHANGED <<config, now, cache, stats, server, calls, call, resp, res, mut, tally>>

\* The verdict of the closure with the retry counter compared by <=
attempt_outcome_inclusive(r, token_refresh_count, current_retry) ==
    IF r.kind = "http"
    THEN IF r.status = 401 /\ token_refresh_count = 0 /\ config.supports_refresh
         THEN [kind |-> "permanent", error |-> HttpError(401, "auth_refresh_needed")]
         ELSE IF is_server_error(r.status) \/ r.status = 429 \/ r.status = 408
         THEN LET error == parse_error_response(r)
              IN  IF is_retryable(error) /\ current_retry <= config.retries
                  THEN [kind |-> "transient", error |-> error]
                  ELSE [kind |-> "permanent", error |-> error]
         ELSE IF ~is_success(r.status) /\ r.status # 304
         THEN [kind |-> "permanent", error |-> parse_error_response(r)]
         ELSE [kind |-> "ok", error |-> OtherError("")]
    ELSE LET error == from_reqwest(r.cause)
         IN  IF is_retryable(error) /\ current_retry <= config.retries
             THEN [kind |-> "transient", error |-> error]
             ELSE [kind |-> "permanent", error |-> error]

\* The verdict of the retry closure on the outcome r of http.execute
attempt_outcome(r, token_refresh_count, current_retry) ==
    IF r.kind = "http"
    THEN IF r.status = 401 /\ token_refresh_count = 0 /\ config.supports_refresh
         THEN [kind |-> "permanent", error |-> HttpError(401, "auth_refresh_needed")]
         ELSE IF is_server_error(r.status) \/ r.status = 429 \/ r.status = 408
         THEN LET error == parse_error_response(r)
              IN  IF is_retryable(error) /\ current_retry < config.retries
                  THEN [kind |-> "transient", error |-> error]
                  ELSE [kind |-> "permanent", error |-> error]
         ELSE IF ~is_success(r.status) /\ r.status # 304
         THEN [kind |-> "permanent", error |-> parse_error_response(r)]
         ELSE [kind |-> "ok", error |-> OtherError("")]
    ELSE LET error == from_reqwest(r.cause)
         IN  IF is_retryable(error) /\ current_retry < config.retries
             THEN [kind |-> "transient", error |-> error]
             ELSE [kind |-> "permanent", error |-> error]

\* backoff.max_elapsed_time as execute_with_retry sets it
max_elapsed_time == IF config.retries > 0 THEN MaxElapsedTime ELSE 0

\* ExponentialBackoff::next_backoff: whether another attempt is scheduled
\* after elapsed ticks.  At exactly the budget the part of the elapsed time
\* and of the interval below one tick decides (admitted).
next_backoff(elapsed, admitted) ==
    elapsed < max_elapsed_time \/ (elapsed = max_elapsed_time /\ admitted)

\* The classes of the response classifier as the specification words them
RetryableClass(r) ==
    \/ r.kind = "http" /\ (r.status \in {429, 408} \/ is_server_error(r.status))
    \/ r.kind = "error" /\ r.cause \in {"timeout", "connect"}

\* What the remote store holds after it has applied the mutation c, the
\* operations on the keys in failed having failed: those are not applied,
\* and a transactional batch with a failed operation applies none.
Apply(c, failed) ==
    [k \in Keys |->
        IF k \notin c.keys \/ k \in failed \/ (c.transactional /\ failed # {}) THEN server[k]
        ELSE IF c.op \in {"delete_secret", "delete_namespace"} THEN Absent
        ELSE c.value]

TheKey(c) == CHOOSE k \in c.keys : TRUE

\* The step from an in-flight request to what execute_with_retry and the
\* operation do with its outcome r, up to the next suspension point.
respond(p, r, etag, expires_at, applied, admitted, failed) ==
    LET c == call[p]
        e == ex[p]
        isget == c.op = "get_secret"
        out == attempt_outcome(r, e.token_refresh_count, e.retry_count)
        scheduled == next_backoff(now - e.started, admitted)
        secret == IF isget /\ r.status = 200
                  THEN [value |-> server[TheKey(c)], version |-> VersionOf(server[TheKey(c)]),
                        etag |-> etag, expires_at |-> expires_at]
                  ELSE NoSecret
        g == get_from_cache(TheKey(c))
        e1 == [e EXCEPT !.fails = IF RetryableClass(r) THEN @ + 1 ELSE @,
                        !.unauthorized = IF r.status = 401 THEN @ + 1 ELSE @]
    IN  /\ pc[p] = "inflight"
        \* what the remote side can answer
        /\ r.status = 304 => isget \/ c.op = "export_env"
        /\ r.status = 200 /\ isget => server[TheKey(c)] # Absent
        /\ (isget /\ r.status = 200) \/ (etag = FALSE /\ expires_at = {})
        /\ \A x \in expires_at : e.sent_at < x
        /\ IF IsMutation(c.op) /\ r.kind = "error" /\ r.cause \in {"timeout", "connect"}
           THEN TRUE
           ELSE applied = (IsMutation(c.op) /\ r.status = 200)
        /\ admitted \/ (out.kind = "transient" /\ now - e.started = max_elapsed_time)
        /\ failed \subseteq c.keys
        /\ failed # {} => c.op = "batch_operate" /\ r.status = 200
        \* the effects
        /\ server' = IF IsMutation(c.op) /\ applied THEN Apply(c, failed) ELSE server
        /\ resp' = [resp EXCEPT ![p] = [kind |-> r.kind, status |-> r.status, body |-> r.body,
                                        cause |-> r.cause, category |-> r.category,
                                        secret |-> secret,
                                        failed |-> failed]]
        /\ CASE out.kind = "permanent" /\ out.error.status = 401
                  /\ out.error.category = "auth_refresh_needed" /\ e.token_refresh_count = 0 ->
                    /\ pc' = [pc EXCEPT ![p] = "refresh"]
                    /\ ex' = [ex EXCEPT ![p] = e1]
                    /\ last' = 0
                    /\ UNCHANGED <<cache, stats, res, mut>>
             [] out.kind = "transient" /\ scheduled ->
                    /\ pc' = [pc EXCEPT ![p] = "retry"]
                    /\ ex' = [ex EXCEPT ![p] = [e1 EXCEPT !.retry_count = @ + 1]]
                    /\ last' = 0
                    /\ UNCHANGED <<cache, stats, res, mut>>
             [] out.kind = "ok" /\ isget /\ r.status = 304 ->
                    /\ ex' = [ex EXCEPT ![p] = [e1 EXCEPT !.from_cache = g.found]]
                    /\ cache' = g.cache
                    /\ stats' = g.stats
                    /\ Return(p, IF g.found THEN Ok(g.secret) ELSE Err(ConsistencyError))
                    /\ mut' = mut
             [] out.kind = "ok" /\ c.op = "delete_secret" ->
                    /\ ex' = [ex EXCEPT ![p] = e1]
                    /\ Return(p, OkUnit)
                    /\ mut' = MutReturned(p)
                    /\ UNCHANGED <<cache, stats>>
             [] out.kind = "ok" /\ ~(isget /\ r.status = 304) /\ c.op # "delete_secret" ->
                    /\ pc' = [pc EXCEPT ![p] = "parse"]
                    /\ ex' = [ex EXCEPT ![p] = e1]
                    /\ last' = 0
                    /\ UNCHANGED <<cache, stats, res, mut>>
             [] OTHER ->
                    /\ ex' = [ex EXCEPT ![p] = e1]
                    /\ Return(p, Err(out.error))
                    /\ mut' = MutReturned(p)
                    /\ UNCHANGED <<cache, stats>>
        /\ tally' = IF out.kind = "ok" /\ isget /\ r.status = 304 THEN CacheRead(g) ELSE tally
        /\ UNCHANGED <<config, now, calls, call>>

\* The refresh step without token_refresh_count += 1
refresh_uncounted(p, ok) ==
    /\ pc[p] = "refresh"
    /\ ok \/ config.supports_refresh
    /\ IF ok
       THEN /\ ex' = [ex EXCEPT ![p].refreshes = @ + 1]
            /\ pc' = [pc EXCEPT ![p] = "loop"]
            /\ last' = 0
            /\ UNCHANGED <<res, mut>>
       ELSE /\ ex' = [ex EXCEPT ![p].refreshes = @ + 1]
            /\ Return(p, Err(OtherError("Config")))
            /\ mut' = MutReturned(p)
    /\ UNCHANGED <<config, now, cache, stats, server, calls, call, resp, tally>>

\* The refresh step after which the executor starts over as for a new call
refresh_restarting(p, ok) ==
    /\ pc[p] = "refresh"
    /\ ok \/ config.supports_refresh
    /\ IF ok
       THEN /\ ex' = [ex EXCEPT ![p] = [NoEx EXCEPT !.request_id = ex[p].request_id,
                                                   !.after = ex[p].after]]
            /\ pc' = [pc EXCEPT ![p] = "loop"]
            /\ last' = 0
            /\ UNCHANGED <<res, mut>>
       ELSE /\ ex' = [ex EXCEPT ![p].refreshes = @ + 1]
            /\ Return(p, Err(OtherError("Config")))
            /\ mut' = MutReturned(p)
    /\ UNCHANGED <<config, now, cache, stats, server, calls, call, resp, tally>>

\* auth.refresh() returns; ok is whether the provider refreshed its token
refresh(p, ok) ==
    /\ pc[p] = "refresh"
    /\ ok \/ config.supports_refresh
    /\ IF ok
       THEN /\ ex' = [ex EXCEPT ![p].refreshes = @ + 1, ![p].token_refresh_count = @ + 1]
            /\ pc' = [pc EXCEPT ![p] = "loop"]
            /\ last' = 0
            /\ UNCHANGED <<res, mut>>
       ELSE /\ ex' = [ex EXCEPT ![p].refreshes = @ + 1]
            /\ Return(p, Err(OtherError("Config")))
            /\ mut' = MutReturned(p)
    /\ UNCHANGED <<config, now, cache, stats, server, calls, call, resp, tally>>

\* The rest of the operation storing the secret whether or not the client
\* was built with a cache
finish_storing(p, parsed) ==
    LET c == call[p]
        secret == resp[p].secret
        caching == c.op = "get_secret" /\ parsed /\ c.use_cache
    IN  /\ pc[p] = "parse"
        /\ resp[p].failed # {} => parsed
        /\ IF caching
           THEN /\ cache' \in moka_insert(cache, TheKey(c), cached_secret(secret, now))
                /\ stats' = [stats EXCEPT !.insertions = @ + 1]
                /\ mut' = mut
           ELSE /\ UNCHANGED <<cache, stats>>
                /\ mut' = IF IsMutation(c.op) THEN MutReturned(p) ELSE mut
        /\ Return(p, IF c.op = "export_env" /\ resp[p].status = 304
                     THEN Err(HttpError(304, "not_modified"))
                     ELSE IF ~parsed THEN Err(OtherError("Deserialize"))
                     ELSE IF c.op = "get_secret" THEN Ok(secret)
                     ELSE IF c.op = "batch_operate"
                     THEN OkBatch(c.keys \ resp[p].failed, resp[p].failed)
                     ELSE OkUnit)
        /\ tally' = IF caching THEN CacheInsert ELSE tally
        /\ UNCHANGED <<config, now, server, calls, call, ex, resp>>

\* The rest of the operation after execute_with_retry returned a response:
\* the body is read and parsed (parsed tells whether that succeeds), and
\* get_secret stores the secret with cache_secret.
finish(p, parsed) ==
    LET c == call[p]
        secret == resp[p].secret
        caching == c.op = "get_secret" /\ parsed /\ config.cache_enabled /\ c.use_cache
    IN  /\ pc[p] = "parse"
        /\ resp[p].failed # {} => parsed
        /\ IF caching
           THEN /\ cache' \in moka_insert(cache, TheKey(c), cached_secret(secret, now))
                /\ stats' = [stats EXCEPT !.insertions = @ + 1]
                /\ mut' = mut
           ELSE /\ UNCHANGED <<cache, stats>>
                /\ mut' = IF IsMutation(c.op) THEN MutReturned(p) ELSE mut
        /\ Return(p, IF c.op = "export_env" /\ resp[p].status = 304
                     THEN Err(HttpError(304, "not_modified"))
                     ELSE IF ~parsed THEN Err(OtherError("Deserialize"))
                     ELSE IF c.op = "get_secret" THEN Ok(secret)
                     ELSE IF c.op = "batch_operate"
                     THEN OkBatch(c.keys \ resp[p].failed, resp[p].failed)
                     ELSE OkUnit)
        /\ tally' = IF caching THEN CacheInsert ELSE tally
        /\ UNCHANGED <<config, now, server, calls, call, ex, resp>>

\* Client::execute_without_retry: the auth header is fetched and the request
\* handed to the transport once
execute_without_retry(p, header_ok) ==
    /\ pc[p] = "probe"
    /\ header_ok \/ config.supports_refresh
    /\ IF header_ok
       THEN /\ ex' = [ex EXCEPT ![p] = Send(p, [@ EXCEPT !.started = now])]
            /\ pc' = [pc EXCEPT ![p] = "probing"]
            /\ UNCHANGED res
            /\ last' = 0
       ELSE /\ ex' = ex
            /\ Return(p, Err(OtherError("Config")))
    /\ UNCHANGED <<config, now, cache, stats, server, calls, call, resp, mut, tally>>

\* The outcome r of the single attempt of a health check: a transport error
\* is returned as it is, a status outside 2xx as the parsed error, a 2xx
\* body is read (livez reads none)
probe_result(p, r, parsed) ==
    /\ pc[p] = "probing"
    /\ r.status # 304
    /\ call[p].op = "livez" => parsed
    /\ resp' = [resp EXCEPT ![p] = [NoResp EXCEPT !.kind = r.kind, !.status = r.status,
                                                  !.body = r.body, !.cause = r.cause,
                                                  !.category = r.category]]
    /\ Return(p, IF r.kind = "error" THEN Err(from_reqwest(r.cause))
                 ELSE IF ~is_success(r.status) THEN Err(parse_error_response(r))
                 ELSE IF ~parsed THEN Err(OtherError("Deserialize"))
                 ELSE OkUnit)
    /\ UNCHANGED <<config, now, cache, stats, server, calls, call, ex, mut, tally>>

\* ------------------------------------------------------------------ environment

\* Time passes.  A request stays in flight for no longer than the request
\* timeout and the backoff wait after it lasts at most max_interval with its
\* randomization (13 s), together less than a tick: from one send to the
\* next a call sees at most one tick.
tick ==
    /\ now < MaxTime
    /\ \A p \in Procs : pc[p] \in {"inflight", "retry", "probing"} => ex[p].sent_at = now
    /\ now' = now + 1
    /\ last' = 0
    /\ UNCHANGED <<config, cache, stats, server, calls, pc, call, ex, resp, res, mut, tally>>

\* moka housekeeping: an entry past the time to live is dropped, and a cache
\* above max_capacity drops an entry
run_pending_tasks(k) ==
    /\ cache[k].present
    /\ \/ now >= cache[k].inserted_at + DefaultTtl
       \/ Cardinality({x \in Keys : cache[x].present}) > MaxEntries
    /\ cache' = moka_invalidate(cache, k)
    /\ last' = 0
    /\ UNCHANGED <<config, now, stats, server, calls, pc, call, ex, resp, res, mut, tally>>

\* ------------------------------------------------------------------ specifications

\* The operations of the callers PS on the keys KS
Operations(PS, KS) ==
    \/ \E p \in PS, k \in KS, use_cache \in BOOLEAN : get_secret(p, k[1], k[2], use_cache)
    \/ \E p \in PS, k \in KS, v \in Values : put_secret(p, k[1], k[2], v)
    \/ \E p \in PS, k \in KS : delete_secret(p, k[1], k[2])
    \/ \E p \in PS, k \in KS, v \in Values : rollback(p, k[1], k[2], v)
    \/ \E p \in PS, ns \in Namespaces, ks \in SUBSET ItemKeys, v \in Values,
          transactional \in BOOLEAN :
          /\ ks # {}
          /\ \A key \in ks : cache_key(ns, key) \in KS
          /\ batch_operate(p, ns, ks, v, transactional)
    \/ \E p \in PS, ns \in Namespaces : delete_namespace(p, ns)
    \/ \E p \in PS : clear_cache(p)

\* The steps of a call under way, the transport answering from RS, the
\* secrets served carrying an ETag from ES and an expires_at from XS
Progress(PS, RS, ES, XS) ==
    \/ \E p \in PS, header_ok \in BOOLEAN : loop_top(p, header_ok)
    \/ \E p \in PS, r \in RS, etag \in ES, x \in XS,
          applied \in BOOLEAN, admitted \in BOOLEAN, failed \in SUBSET Keys :
             respond(p, r, etag, x, applied, admitted, failed)
    \/ \E p \in PS, parsed \in BOOLEAN : finish(p, parsed)

\* The steps only a client with retries or a refreshable credential takes
Resilience(PS) ==
    \/ \E p \in PS : retry_send(p)
    \/ \E p \in PS, ok \in BOOLEAN : refresh(p, ok)

\* One caller, every operation, a client without retries and with a static
\* credential: the cache and the operations around it.
CacheResponses ==
    {HttpResponse(200, 0), HttpResponse(304, 0), HttpResponse(404, 0), TransportError("timeout")}

InitCache ==
    Init /\ config.retries = 0 /\ ~config.supports_refresh

Next ==
    \/ calls < MaxCalls /\ Operations({1}, Keys)
    \/ stats_reset(1)
    \/ Progress({1}, CacheResponses, BOOLEAN, {{}, {ExpiresAt}})
    \/ tick
    \/ \E k \in Keys : run_pending_tasks(k)

Spec == InitCache /\ [][Next]_vars

\* One caller, one key, every configuration, every response:
\* execute_with_retry.
TheSecret == <<"n1", "a">>

NextExec ==
    \/ calls < MaxExecCalls /\
         \/ \E use_cache \in BOOLEAN : get_secret(1, TheSecret[1], TheSecret[2], use_cache)
         \/ put_secret(1, TheSecret[1], TheSecret[2], "v2")
    \/ Progress({1}, Responses, {FALSE}, {{}})
    \/ Resilience({1})
    \/ tick

SpecExec == Init /\ [][NextExec]_vars

\* One caller, one key, a client built with retries 0, every response and
\* every error body: the executor of a client that never retries.
InitOnce ==
    Init /\ config.retries = 0

NextOnce ==
    \/ calls < MaxExecCalls /\
         \/ \E use_cache \in BOOLEAN : get_secret(1, TheSecret[1], TheSecret[2], use_cache)
         \/ put_secret(1, TheSecret[1], TheSecret[2], "v2")
    \/ Progress({1}, Responses \cup {RefreshNeededBody}, {FALSE}, {{}})
    \/ \E ok \in BOOLEAN : refresh(1, ok)

SpecOnce == InitOnce /\ [][NextOnce]_vars

\* Two callers on one key, caching enabled, no retries, a static credential:
\* the interleavings of reads, mutations and cache resets.
ConcResponses == {HttpResponse(200, 0), HttpResponse(404, 0)}

InitConc ==
    Init /\ config.cache_enabled /\ config.retries = 0 /\ ~config.supports_refresh

NextConc ==
    \/ calls < MaxConcCalls /\
         \E p \in Procs :
            \/ get_secret(p, TheSecret[1], TheSecret[2], TRUE)
            \/ put_secret(p, TheSecret[1], TheSecret[2], "v2")
            \/ delete_secret(p, TheSecret[1], TheSecret[2])
            \/ rollback(p, TheSecret[1], TheSecret[2], "v1")
            \/ batch_operate(p, TheSecret[1], {TheSecret[2]}, "v2", FALSE)
            \/ clear_cache(p)
    \/ \E p \in Procs : stats_reset(p)
    \/ Progress(Procs, ConcResponses, {FALSE}, {{}})

SpecConc == InitConc /\ [][NextConc]_vars

\* Two callers with a refreshable credential, at most one retry, caching
\* disabled: the token refresh of execute_with_retry under interleaving.
AuthResponses ==
    {HttpResponse(200, 0), HttpResponse(401, 0), HttpResponse(401, 404), HttpResponse(503, 0)}

InitAuth ==
    Init /\ config.supports_refresh /\ ~config.cache_enabled /\ config.retries <= 1

NextAuth ==
    \/ calls < MaxAuthCalls /\
         \E p \in Procs :
            \/ get_secret(p, TheSecret[1], TheSecret[2], FALSE)
            \/ put_secret(p, TheSecret[1], TheSecret[2], "v2")
    \/ Progress(Procs, AuthResponses, {FALSE}, {{}})
    \/ Resilience(Procs)

SpecAuth == InitAuth /\ [][NextAuth]_vars

\* One caller, one key, caching enabled, every mutating operation, with
\* retries and either kind of credential: the invalidation of a mutation
\* against the outcomes of its request.
MutResponses ==
    {HttpResponse(200, 0), HttpResponse(401, 0), HttpResponse(404, 0), HttpResponse(503, 0),
     TransportError("timeout")}

InitMut ==
    Init /\ config.cache_enabled

NextMut ==
    \/ calls < MaxMutCalls /\
         \/ get_secret(1, TheSecret[1], TheSecret[2], TRUE)
         \/ put_secret(1, TheSecret[1], TheSecret[2], "v2")
         \/ delete_secret(1, TheSecret[1], TheSecret[2])
         \/ rollback(1, TheSecret[1], TheSecret[2], "v1")
         \/ batch_operate(1, TheSecret[1], {TheSecret[2]}, "v2", FALSE)
         \/ delete_namespace(1, TheSecret[1])
    \/ Progress({1}, MutResponses, {FALSE}, {{}})
    \/ Resilience({1})

SpecMut == InitMut /\ [][NextMut]_vars

\* Two callers, two keys, caching enabled or disabled, get_secret only:
\* concurrent reads against the cache and its counters.
InitReads ==
    Init /\ config.retries = 0 /\ ~config.supports_refresh

ReadResponses == {HttpResponse(200, 0), HttpResponse(304, 0), HttpResponse(404, 0)}

NextReads ==
    \/ calls < MaxReadCalls /\
         \E p \in Procs, k \in Keys, use_cache \in BOOLEAN : get_secret(p, k[1], k[2], use_cache)
    \/ Progress(Procs, ReadResponses, {FALSE}, {{}})
    \/ tick
    \/ \E k \in Keys : run_pending_tasks(k)

SpecReads == InitReads /\ [][NextReads]_vars

\* Two callers on one key, caching enabled, no retries, a static credential:
\* get_secret with and without the cache around put_secret.
InitTrip ==
    Init /\ config.cache_enabled /\ config.retries = 0 /\ ~config.supports_refresh

NextTrip ==
    \/ calls < MaxTripCalls /\
         \E p \in Procs :
            \/ \E use_cache \in BOOLEAN : get_secret(p, TheSecret[1], TheSecret[2], use_cache)
            \/ put_secret(p, TheSecret[1], TheSecret[2], "v2")
    \/ Progress(Procs, ReadResponses, {FALSE}, {{}})

SpecTrip == InitTrip /\ [][NextTrip]_vars

\* One caller, one key, every configuration, under the assumption that every
\* transport invocation, backoff wait and credential refresh returns: the
\* steps of a call under way are taken eventually.
LiveResponses ==
    {HttpResponse(200, 0), HttpResponse(401, 0), HttpResponse(404, 0), HttpResponse(503, 0),
     TransportError("timeout")}

NextLive ==
    \/ calls < MaxLiveCalls /\
         \/ \E use_cache \in BOOLEAN : get_secret(1, TheSecret[1], TheSecret[2], use_cache)
         \/ put_secret(1, TheSecret[1], TheSecret[2], "v2")
    \/ Progress({1}, LiveResponses, {FALSE}, {{}})
    \/ Resilience({1})

SpecLive ==
    /\ Init /\ [][NextLive]_vars
    /\ WF_vars(Progress({1}, LiveResponses, {FALSE}, {{}}))
    /\ WF_vars(Resilience({1}))

\* One caller, one key, a static credential, the cache enabled or not, with
\* or without retries: get_secret next to the reads that are not
\* cache-eligible and the health checks.
MaxFrameCalls == 3

FrameResponses ==
    {HttpResponse(200, 0), HttpResponse(304, 0), HttpResponse(404, 0), HttpResponse(503, 0),
     RefreshNeededBody, TransportError("timeout")}

InitFrame ==
    Init /\ ~config.supports_refresh

NextFrame ==
    \/ calls < MaxFrameCalls /\
         \/ \E use_cache \in BOOLEAN : get_secret(1, TheSecret[1], TheSecret[2], use_cache)
         \/ list_secrets(1, TheSecret[1])
         \/ batch_get(1, TheSecret[1], {TheSecret[2]})
         \/ \E use_cache \in BOOLEAN : export_env(1, TheSecret[1], use_cache)
         \/ list_versions(1, TheSecret[1], TheSecret[2])
         \/ get_version(1, TheSecret[1], TheSecret[2])
         \/ audit(1)
         \/ \E op \in HealthChecks : health_check(1, op)
    \/ Progress({1}, FrameResponses, {FALSE}, {{}})
    \/ Resilience({1})
    \/ \E header_ok \in BOOLEAN : execute_without_retry(1, header_ok)
    \/ \E r \in FrameResponses, parsed \in BOOLEAN : probe_result(1, r, parsed)

SpecFrame == InitFrame /\ [][NextFrame]_vars

\* ------------------------------------------------------------------ properties

\* The step starts a logical call of p.
Started(p) == calls' = calls + 1 /\ ex'[p].request_id = calls'

\* The step is one of p's call.
StepOf(p) == <<pc[p], ex[p], call[p]>>' # <<pc[p], ex[p], call[p]>>

\* The step hands the outcome of an in-flight request to p's call.
Answered(p) == pc[p] = "inflight" /\ resp'[p] # resp[p]

\* The error the executor makes of a failed response.
error_of(r) == IF r.kind = "http" THEN parse_error_response(r) ELSE from_reqwest(r.cause)

\* ---- C1

\* A default get_secret of k has just returned Ok to q, caching enabled, and
\* in the very next step p starts a default get_secret of k.
C1Case(p, q) ==
    /\ config.cache_enabled
    /\ last = q /\ call[q].op = "get_secret" /\ call[q].use_cache /\ res[q].ok
    /\ Started(p) /\ call'[p].op = "get_secret" /\ call'[p].use_cache
    /\ call'[p].keys = call[q].keys

\* p's call returns at once what q got, without a dispatch, as one hit.
C1Effect(p, q) ==
    /\ pc'[p] = "done" /\ res'[p].ok /\ res'[p].secret = res[q].secret
    /\ ex'[p].sends = 0
    /\ stats'.hits = stats.hits + 1 /\ stats'.misses = stats.misses

\* The secret q got is not past its own expires_at and its entry is in the
\* store (the capacity policy did not drop it).
C1Admitted(q) ==
    /\ cache[TheKey(call[q])].present
    /\ \A x \in res[q].secret.expires_at : now < x

C2Case(p, k) ==
    /\ Started(p) /\ call'[p].op = "get_secret" /\ call'[p].use_cache
    /\ call'[p].keys = {k}
    /\ mut[k].phase = "ran"

\* The read is a miss and the call goes on to the executor.
C2Effect(p) ==
    /\ pc'[p] = "loop"
    /\ stats'.misses = stats.misses + 1 /\ stats'.hits = stats.hits

\* C2: for a key K with a non-expired entry, after put_secret, delete_secret,
\* rollback or a batch_operate naming K has run, the next default
\* get_secret(K) is a cache miss and goes on to dispatch.
C2Claim ==
    [][\A p \in Procs, k \in Keys : C2Case(p, k) => C2Effect(p)]_vars

\* ---- C3

\* C3: a call answered by N consecutive retryable failures and then a success
\* succeeds after exactly N+1 transport invocations when the retry limit is at
\* least N; otherwise it fails with the last retryable error.  At a returned
\* call: one that gave up on a retryable failure has used the whole budget
\* (retry limit + 1 invocations) and returns the error of its last response,
\* and one that ended on a success saw no more failures than the limit.
C3Claim ==
    \A p \in Procs :
        pc[p] = "done" /\ ex[p].sends > 0 =>
            /\ ex[p].fails = ex[p].sends =>
                  /\ ex[p].sends = config.retries + 1
                  /\ ~res[p].ok /\ res[p].error = error_of(resp[p])
            /\ ex[p].fails + 1 = ex[p].sends /\ resp[p].status = 200 =>
                  ex[p].fails <= config.retries

\* ---- C4

C5Claim ==
    [][\A p \in Procs :
          StepOf(p) /\ call'[p].op = "get_secret" /\ ~call'[p].use_cache =>
              /\ stats'.hits = stats.hits
              /\ Started(p) => pc'[p] = "loop"
      ]_vars

\* ---- C6

\* C6: a cache read that meets an entry whose cache_expires_at is in the past
\* does not return it and records exactly one expiration and one miss, also
\* when the entry has outlived the store's time to live.
C6Claim ==
    [][\A p \in Procs, k \in Keys :
          /\ Started(p) /\ call'[p].op = "get_secret" /\ call'[p].use_cache
          /\ call'[p].keys = {k} /\ config.cache_enabled
          /\ cache[k].present /\ now >= cache[k].cache_expires_at
          => /\ pc'[p] = "loop"
             /\ stats'.expirations = stats.expirations + 1
             /\ stats'.misses = stats.misses + 1
      ]_vars

\* ---- C7

\* C7: a 304 answered to a get_secret of a client with caching disabled, or to
\* one issued with use_cache = false, makes the call fail with the consistency
\* error, also when the cache holds an entry of the key.
C7Claim ==
    [][\A p \in Procs :
          /\ Answered(p) /\ resp'[p].status = 304
          /\ ~config.cache_enabled \/ ~call[p].use_cache
          => pc'[p] = "done" /\ res'[p] = Err(ConsistencyError)
      ]_vars

\* ---- C8

\* C8: a response of status 429, 408 or 5xx and a transport error of the
\* connection or timeout kind is sent again while the retry budget (count and
\* elapsed time) is not exhausted; a decode error is never sent again.
C8Claim ==
    [][\A p \in Procs :
          Answered(p) =>
              /\ /\ RetryableClass(resp'[p])
                 /\ ex[p].retry_count < config.retries
                 /\ now - ex[p].started < max_elapsed_time
                 => pc'[p] = "retry"
              /\ resp'[p].cause = "decode" => pc'[p] = "done"
      ]_vars

\* ---- C9

\* C9: put_secret, delete_secret, rollback, batch_operate and delete_namespace
\* remove the affected cache entries in the step that starts the call, before
\* any transport invocation, and no later step of the call brings them back:
\* whatever the executor returns (permanent error, exhausted retries, failed
\* credential lookup or refresh), the entries are absent when it returns.
C9Theorem ==
    [][\A p \in Procs :
          StepOf(p) /\ IsMutation(call'[p].op) =>
              /\ \A k \in call'[p].keys : ~cache'[k].present
              /\ Started(p) => ex'[p].sends = 0 /\ pc'[p] = "loop"
      ]_vars

\* A mutation that found a live entry of its key has failed and the entry is
\* gone.
C9Witness ==
    \E p \in Procs, k \in Keys :
        /\ pc[p] = "done" /\ IsMutation(call[p].op) /\ k \in call[p].keys
        /\ ~res[p].ok /\ ex[p].sends > 0
        /\ mut[k].phase = "ran" /\ mut[k].by = p
        /\ ~cache[k].present

\* ---- C10

\* C10: within one logical call no two transport invocations carry the same
\* X-Request-ID: the invocations of a call carry as many ids as there are
\* invocations.
C10Claim ==
    \A p \in Procs : Cardinality(ex[p].ids) = ex[p].sends

\* ---- C11

\* The step returns Ok from a get_secret of p that fetched from the server.
Fetched(p) ==
    /\ pc[p] = "parse" /\ pc'[p] = "done"
    /\ call[p].op = "get_secret" /\ res'[p].ok

\* C11: with caching enabled, when a get_secret(K) that got its result from
\* the server returns successfully, issued with cache bypass or not, the cache
\* entry of K holds the value and the version the call returns.
C11Claim ==
    [][\A p \in Procs :
          Fetched(p) /\ config.cache_enabled =>
              LET k == TheKey(call[p])
              IN  /\ cache'[k].present
                  /\ cache'[k].value = res'[p].secret.value
                  /\ cache'[k].version = res'[p].secret.version
      ]_vars

\* ---- C12

\* C12: clear_cache removes the entries and zeroes the counters as one atomic
\* step: no step of a concurrent call is taken in a state where a clear_cache
\* has removed the entries while the counters still hold pre-clear values.
C12Claim ==
    [][\A p, q \in Procs :
          p # q /\ pc[p] = "reset" /\ StepOf(q) => stats = ZeroStats
      ]_vars

\* ---- C13

\* Every call has returned.
AllReturned == \A p \in Procs : pc[p] \in {"idle", "done"}

\* C13: whatever the interleaving of the calls, as long as no clear_cache has
\* run, once all calls have returned hits is the number of cache reads that
\* returned an entry, misses the number of cache reads that returned none and
\* insertions the number of cache inserts.
C13Theorem ==
    AllReturned /\ ~tally.cleared =>
        /\ stats.hits = tally.found
        /\ stats.misses = tally.none
        /\ stats.insertions = tally.inserts

\* Two get_secret calls of the same key overlapped: both missed and both
\* stored what they fetched, and both have returned.
C13Witness ==
    /\ calls = 2 /\ now = 0 /\ AllReturned /\ ~tally.cleared
    /\ \A p \in Procs : call[p].op = "get_secret" /\ call[p].use_cache /\ res[p].ok
    /\ call[1].keys = call[2].keys
    /\ tally.none = 2 /\ tally.inserts = 2

\* ------------------------------------------------------------------ C14
\* C14: whenever inserting an entry into a cache that holds max_entries
\* entries removes an existing entry to make room, the evictions counter
\* increases by one and the expirations counter does not change.
Held(c) == {x \in Keys : c[x].present}

Evicting(p) ==
    /\ pc[p] = "parse" /\ pc'[p] = "done"
    /\ call[p].op = "get_secret" /\ res'[p].ok
    /\ Cardinality(Held(cache)) = MaxEntries
    /\ \E k \in Held(cache) \ {TheKey(call[p])} : ~cache'[k].present

C14Claim ==
    [][\A p \in Procs : Evicting(p) =>
          /\ stats'.evictions = stats.evictions + 1
          /\ stats'.expirations = stats.expirations]_vars

\* ------------------------------------------------------------------ C15
\* C15: if obtaining the authentication header fails, the call fails with a
\* Configuration-class error, the transport is not invoked for that attempt
\* and nothing is retried: the call has returned and sent nothing in the step.
HeaderFailed(p) == pc[p] = "loop" /\ pc'[p] # "inflight" /\ pc'[p] # "loop"

C15Theorem ==
    [][\A p \in Procs : HeaderFailed(p) =>
          /\ pc'[p] = "done"
          /\ res'[p] = Err(OtherError("Config"))
          /\ ex'[p].sends = ex[p].sends
          /\ ex'[p].retry_count = ex[p].retry_count]_vars

\* A call with a retry left returned the Configuration error without a
\* request ever sent and without a refresh: get_header failed on its first pass.
C15Witness ==
    \E p \in Procs :
        /\ pc[p] = "done" /\ last = p
        /\ res[p] = Err(OtherError("Config"))
        /\ config.retries > 0
        /\ ex[p].sends = 0 /\ ex[p].refreshes = 0

Failure(p) ==
    /\ Answered(p) /\ resp'[p].kind = "http"
    /\ ~is_success(resp'[p].status) /\ resp'[p].status # 304

C17Claim ==
    [][\A p \in Procs :
          Failure(p) =>
              LET onStatus == is_retryable(HttpError(resp'[p].status, "server"))
              IN  /\ pc'[p] = "done" => res'[p].error.status = resp'[p].status
                  /\ pc'[p] = "retry" => onStatus
                  /\ /\ onStatus
                     /\ ex[p].retry_count < config.retries
                     /\ now - ex[p].started < max_elapsed_time
                     => pc'[p] = "retry"
      ]_vars

OneFailed(p) ==
    /\ pc[p] = "done" /\ call[p].op = "batch_operate"
    /\ resp[p].kind = "http" /\ resp[p].status = 200
    /\ Cardinality(resp[p].failed) = 1

C19Claim ==
    \A p \in Procs :
        OneFailed(p) =>
            IF call[p].transactional
            THEN ~res[p].ok
            ELSE /\ res[p].ok
                 /\ res[p].failed = resp[p].failed
                 /\ res[p].succeeded = call[p].keys \ resp[p].failed

\* ------------------------------------------------------------------ C20
\* C20: the configured request timeout bounds the whole logical call with all
\* its retries and backoff waits: once a call has lasted longer than the
\* timeout no further attempt is sent, and a call that ends then returns a
\* timeout failure.  A call whose start lies more than Timeout ticks back has
\* lasted longer than the timeout wherever in their ticks the two instants lie.
Elapsed(p) == now - ex[p].started

C20Claim ==
    [][\A p \in Procs :
          pc[p] \in {"retry", "inflight"} /\ Elapsed(p) > Timeout =>
              /\ ex'[p].sends = ex[p].sends
              /\ pc'[p] # pc[p] => pc'[p] = "done" /\ res'[p] = Err(from_reqwest("timeout"))
      ]_vars

\* ------------------------------------------------------------------ C21
\* C21: a successful put_secret(K, V) followed, with no other mutation of K
\* in between (the store still holds V), by a get_secret(K) with cache bypass
\* returns V: the get that started after the put had returned carries the
\* value of the put when it succeeds.
PutThenGet(q, p) ==
    /\ pc[q] = "done" /\ call[q].op = "put_secret" /\ res[q].ok
    /\ call[p].op = "get_secret" /\ ~call[p].use_cache /\ call[p].keys = call[q].keys
    /\ q \in ex[p].after /\ ex[p].request_id > ex[q].request_id
    /\ server[TheKey(call[q])] = call[q].value
    /\ pc[p] # "done" /\ pc'[p] = "done" /\ res'[p].ok

C21Claim ==
    [][\A p, q \in Procs :
          p # q /\ PutThenGet(q, p) => res'[p].secret.value = call[q].value]_vars

\* ------------------------------------------------------------------ C22
\* C22: for any interleaving of a get_secret(K) with default options and a
\* put_secret(K) on the same client, once both calls have returned and the
\* put succeeded, the cache holds no entry for K with another value than the
\* one put (the value the server had before).
BothReturned(p, q) ==
    /\ pc[p] = "done" /\ call[p].op = "get_secret" /\ call[p].use_cache
    /\ pc[q] = "done" /\ call[q].op = "put_secret" /\ res[q].ok
    /\ call[p].keys = call[q].keys
    /\ server[TheKey(call[q])] = call[q].value

C22Claim ==
    \A p, q \in Procs :
        p # q /\ BothReturned(p, q) =>
            LET k == TheKey(call[q])
            IN  cache[k].present => cache[k].value = call[q].value

\* ------------------------------------------------------------------ C23
\* C23: the retry budget is per logical call: the retryable failures followed
\* by a re-send never exceed the configured retry limit, a credential refresh
\* adds at most one more send, so a logical call invokes the transport at
\* most retries + 2 times.
Resends(p) == ex[p].sends - 1 - ex[p].token_refresh_count

C23Claim ==
    \A p \in Procs :
        pc[p] # "idle" =>
            /\ ex[p].sends <= config.retries + 2
            /\ Resends(p) <= config.retries

\* ------------------------------------------------------------------ C24
\* C24: a mutating operation (sent without an idempotency marker) whose send
\* ends in a timeout or a connection failure is not sent again: the call
\* returns that failure.
UnknownOutcome(p) ==
    /\ Answered(p) /\ IsMutation(call[p].op)
    /\ resp'[p].kind = "error" /\ resp'[p].cause \in {"timeout", "connect"}

C24Claim ==
    [][\A p \in Procs :
          UnknownOutcome(p) =>
              /\ pc'[p] = "done"
              /\ res'[p] = Err(from_reqwest(resp'[p].cause))
              /\ ex'[p].retry_count = ex[p].retry_count
      ]_vars

\* ------------------------------------------------------------------ C25
\* C25: a response whose status is not 2xx, not 304, not of the retryable
\* class and not a refreshable 401 ends the logical call with that transport
\* invocation: the error is returned, no retry is scheduled and the
\* credential's refresh is not invoked.
Refreshable401(p) ==
    resp'[p].status = 401 /\ config.supports_refresh /\ ex[p].token_refresh_count = 0

Final(p) ==
    /\ Failure(p)
    /\ ~RetryableClass(resp'[p])
    /\ ~Refreshable401(p)

C25Claim ==
    [][\A p \in Procs :
          Final(p) =>
              /\ pc'[p] = "done"
              /\ ~res'[p].ok /\ res'[p].error.type = "Http"
              /\ ex'[p].sends = ex[p].sends
      ]_vars

\* ------------------------------------------------------------------ C26
\* C26: on a 304 response get_secret returns a result only when a non-expired
\* cache entry for the key exists at that moment, and then exactly that
\* entry's value and version; when no such entry exists the call fails with
\* the 'no cached entry' error and never returns a secret made of the empty
\* 304 payload.  The cache contents stay as they are, except that an entry of
\* the key that the cache still holds but that has expired is removed.
NotModified(p) == Answered(p) /\ resp'[p].status = 304

Visible(k) == config.cache_enabled /\ moka_get(cache, k, now).present

Live(k) == Visible(k) /\ ~is_expired(cache[k], now)

Resolved(p, k) ==
    /\ pc'[p] = "done"
    /\ IF Live(k)
       THEN /\ res'[p].ok
            /\ res'[p].secret.value = cache[k].value
            /\ res'[p].secret.version = cache[k].version
       ELSE res'[p] = Err(ConsistencyError)

C27Theorem == \A p \in Procs : (pc[p] = "loop") ~> (pc[p] = "done")

\* A call has returned after a retried failure and a refreshed credential.
C27Witness ==
    \E p \in Procs :
        /\ pc[p] = "done" /\ res[p].set
        /\ ex[p].fails >= 1 /\ ex[p].token_refresh_count = 1 /\ ex[p].sends >= 3

\* ---- C28

\* The step is one of a call of p that is a read other than get_secret or
\* a health check.
Ineligible(p) ==
    StepOf(p) /\ call'[p].op \in ReadOnlyOps \cup HealthChecks

Mutating(p) == StepOf(p) /\ IsMutation(call'[p].op)

\* C29: A mutation removes only the cache entries of the keys it affects:
\* no step of put_secret, delete_secret, rollback or batch_operate changes
\* the entry of a key the call does not name, and no step of
\* delete_namespace(ns) changes the entry of a key of another namespace.
C29Claim ==
    [][\A p \in Procs :
          Mutating(p) => \A k \in Keys \ call'[p].keys : cache'[k] = cache[k]]_vars

\* ---- C30

\* p starts a default get_secret of k while the entry cached for k is still
\* in the store (no mutation, clear or capacity eviction removed it since it
\* was cached) and carries no resource expiry.
C30Case(p, k) ==
    /\ config.cache_enabled
    /\ cache[k].present /\ cache[k].expires_at = {}
    /\ Started(p) /\ call'[p].op = "get_secret" /\ call'[p].use_cache
    /\ call'[p].keys = {k}

\* The call is served from the cache: it returns the cached secret at once,
\* as a hit, without a dispatch.
C30Served(p, k) ==
    /\ pc'[p] = "done" /\ res'[p].ok /\ res'[p].secret = into_secret(cache[k])
    /\ ex'[p].sends = 0
    /\ stats'.hits = stats.hits + 1

\* The time to live the claim gives the entry e
C30Ttl(e) == IF e.etag THEN 2 * DefaultTtl ELSE DefaultTtl

\* C30: An entry cached from a response that carried an ETag is given twice
\* the default TTL: a default get_secret of its key is served from the cache
\* at every time before 2 x default TTL after it was cached, an entry cached
\* without an ETag only before 1 x default TTL.
C30Claim ==
    [][\A p \in Procs, k \in Keys :
          C30Case(p, k) =>
             (C30Served(p, k) <=> now < cache[k].inserted_at + C30Ttl(cache[k]))]_vars

====
